---------------------------- MODULE Spec2Model ----------------------------
(***************************************************************************)
(* A model of the git keyword-substitution hook pair:                      *)
(*   git_pre_commit_hook.py   (GitPreCommitHook)                           *)
(*   git_post_commit_hook.py  (run, compile_commit_data,                   *)
(*                             update_repository_tables)                   *)
(* Text is modelled at character level: a string is a sequence of          *)
(* one-character strings, a file is the sequence of its bytes.             *)
(***************************************************************************)
EXTENDS Integers, Sequences, FiniteSets, TLC

(***************************************************************************)
(* Bounds of the model.                                                    *)
(***************************************************************************)
\* longest file (in lines) that SpecFile draws
MaxLines == 4
\* largest revision number the ledger hands out
MaxRev == 3
\* pre-commit invocations started in one behaviour of Spec
MaxRuns == 2
\* commits git creates (post-commit hook runs) in one behaviour of Spec
MaxCommits == 2
\* seconds the wall clock can reach
MaxClock == 2

(***************************************************************************)
(* Characters and small string helpers.                                    *)
(***************************************************************************)
NL == "\n"
CR == "\r"
\* a byte that is not valid UTF-8 (0xff)
BADBYTE == "<ff>"

StartsWith(s, p) == Len(s) >= Len(p) /\ SubSeq(s, 1, Len(p)) = p

Range(s) == {s[i] : i \in DOMAIN s}

RECURSIVE Flatten(_)
Flatten(ss) == IF ss = <<>> THEN <<>> ELSE Head(ss) \o Flatten(Tail(ss))

SetMin(S) == CHOOSE x \in S : \A y \in S : x <= y

Digits == <<"0", "1", "2", "3", "4", "5", "6", "7", "8", "9">>

\* str(n) / the f-string formatting of an int
RECURSIVE str_int(_)
str_int(n) ==
    IF n < 10 THEN <<Digits[n + 1]>>
    ELSE str_int(n \div 10) \o <<Digits[(n % 10) + 1]>>

\* str.lower() on the letters the model uses
LowerChar(c) ==
    CASE c = "R" -> "r"
      [] c = "A" -> "a"
      [] OTHER -> c

lower(s) == [i \in DOMAIN s |-> LowerChar(s[i])]

(***************************************************************************)
(* Constants of git_pre_commit_hook.py.                                    *)
(***************************************************************************)
TAG_REPO   == <<"$", "R", "e", "p", "o", ":">>
TAG_AUTHOR == <<"$", "A", "u", "t", "h", "o", "r", ":">>
TAG_DATE   == <<"$", "D", "a", "t", "e", ":">>
TAG_REV    == <<"$", "R", "e", "v", ":">>

\* RE_KEYS[0..3], 1-based here
RE_KEYS == <<TAG_REPO, TAG_AUTHOR, TAG_DATE, TAG_REV>>

HASH_MARK == <<"#", "-", "-", "-">>
PY_MARK   == <<"\"", "\"", "\"", NL>>

PATCHABLE_EXT_PREFIXES ==
    [e \in {".conf", ".env", ".ini", ".py", ".toml", ".yaml"} |->
        IF e = ".py" THEN PY_MARK ELSE HASH_MARK]

(***************************************************************************)
(* Paths: pathlib splits a file name into stem and suffix; a name with a   *)
(* leading dot only ('.env') has an empty suffix and is all stem.          *)
(***************************************************************************)
MkPath(stem, suffix) == [stem |-> stem, suffix |-> suffix]

\* Path.name
path_name(p) == <<p.stem, p.suffix>>

\* GitPreCommitHook.current_infile_ext: suffix or name
current_infile_ext(p) == IF p.suffix # "" THEN p.suffix ELSE p.stem

\* GitPreCommitHook.patchable_file
patchable_file(p) == current_infile_ext(p) \in DOMAIN PATCHABLE_EXT_PREFIXES

(***************************************************************************)
(* Reading a file in text mode (open(..., 'r', encoding='utf8')).          *)
(***************************************************************************)
\* the utf8 decoder raises on an invalid byte
decode_fails(bytes) == BADBYTE \in Range(bytes)

\* universal newlines: "\r\n" and a lone "\r" are both read as "\n"
RECURSIVE universal_newlines(_)
universal_newlines(b) ==
    IF b = <<>> THEN <<>>
    ELSE IF b[1] = CR
         THEN <<NL>> \o universal_newlines(
                  IF Len(b) >= 2 /\ b[2] = NL THEN SubSeq(b, 3, Len(b))
                  ELSE Tail(b))
         ELSE <<b[1]>> \o universal_newlines(Tail(b))

\* what the text-mode handle delivers for the bytes on disk
read_text(b) == universal_newlines(b)

\* index of the last character of the first line of t (t non-empty)
FirstLineEnd(t) ==
    IF \E i \in DOMAIN t : t[i] = NL
    THEN SetMin({i \in DOMAIN t : t[i] = NL})
    ELSE Len(t)

\* hdl.readline(): the first line, terminator included; '' at end of file
readline(t) == IF t = <<>> THEN <<>> ELSE SubSeq(t, 1, FirstLineEnd(t))

\* iterating the handle: every line, terminator included
RECURSIVE readlines(_)
readlines(t) ==
    IF t = <<>> THEN <<>>
    ELSE <<readline(t)>> \o readlines(SubSeq(t, FirstLineEnd(t) + 1, Len(t)))

(***************************************************************************)
(* GitPreCommitHook.crc_of                                                 *)
(***************************************************************************)
\* hashlib.md5(...).hexdigest(): a function of the concatenation of the
\* updates, taken as collision-free
hexdigest(data) == <<"md5">> \o data

\* one pass of the loop body over `row`
crc_step(st, row, prefix) ==
    LET hashing == st.header_active # "True"
        hs == IF hashing THEN StartsWith(row, prefix) ELSE st.header_start
        ha == IF st.header_active = "None" /\ hs THEN "True"
              ELSE IF st.header_active = "True" /\ hs THEN "False"
              ELSE st.header_active
    IN [header_active |-> ha,
        header_start  |-> hs,
        crc_sum       |-> IF hashing THEN st.crc_sum \o row ELSE st.crc_sum]

RECURSIVE crc_loop(_, _, _)
crc_loop(st, rows, prefix) ==
    IF rows = <<>> THEN st
    ELSE crc_loop(crc_step(st, Head(rows), prefix), Tail(rows), prefix)

\* the rows of `for idx, row in enumerate(hdl.readline(), 1)`: iterating
\* the string readline() returns yields its characters one by one
MutScanAllLines(text) == readlines(text)

crc_rows(text) ==
    LET line == readline(text)
    IN [i \in DOMAIN line |-> <<line[i]>>]

crc_of(bytes, ext) ==
    hexdigest(crc_loop([header_active |-> "None", header_start |-> FALSE,
                        crc_sum |-> <<>>],
                       crc_rows(read_text(bytes)),
                       PATCHABLE_EXT_PREFIXES[ext]).crc_sum)

\* the try/except around the scan: any failure becomes RuntimeError
crc_of_raises(bytes) == decode_fails(bytes)

(***************************************************************************)
(* GitPreCommitHook.update_header_block: the rewrite loop                  *)
(***************************************************************************)
TagAt(row, j, tag) ==
    /\ j + Len(tag) - 1 <= Len(row)
    /\ SubSeq(row, j, j + Len(tag) - 1) = tag

\* a variant of the pattern that takes any white space before the tag
\* (r"(\s+?TAG)(.+)")
MutAnyWhitespace(tag, value, row) ==
    LET J == {j \in 2..Len(row) :
                 /\ row[j - 1] \in {" ", "\t"}
                 /\ TagAt(row, j, tag)
                 /\ j + Len(tag) <= Len(row)
                 /\ row[j + Len(tag)] # NL}
    IN IF J = {} THEN row
       ELSE LET j == SetMin(J)
                after == j + Len(tag)
                stops == {k \in after..Len(row) : row[k] = NL}
                e == IF stops = {} THEN Len(row) ELSE SetMin(stops) - 1
            IN SubSeq(row, 1, after - 1) \o <<" ">> \o value
                 \o SubSeq(row, e + 1, Len(row))

\* re.sub(r"( +?TAG)(.+)", r"\1 VALUE", row)
RECURSIVE re_sub(_, _, _)
re_sub(tag, value, row) ==
    LET J == {j \in 2..Len(row) :
                 /\ row[j - 1] = " "
                 /\ TagAt(row, j, tag)
                 /\ j + Len(tag) <= Len(row)
                 /\ row[j + Len(tag)] # NL}
    IN IF J = {} THEN row
       ELSE LET j == SetMin(J)
                after == j + Len(tag)
                stops == {k \in after..Len(row) : row[k] = NL}
                e == IF stops = {} THEN Len(row) ELSE SetMin(stops) - 1
            IN SubSeq(row, 1, after - 1) \o <<" ">> \o value
                 \o re_sub(tag, value, SubSeq(row, e + 1, Len(row)))

\* the four substitutions, in the order of the source
substitute(row, cd) ==
    LET r1 == re_sub(RE_KEYS[2], cd.user, row)
        r2 == re_sub(RE_KEYS[4], str_int(cd.rev), r1)
        r3 == re_sub(RE_KEYS[3], cd.date, r2)
    IN re_sub(RE_KEYS[1], cd.repo, r3)

\* a variant of the loop body in which the block closes after one line
MutOneLineHeader(st, row0, prefix, cd) ==
    LET row == IF st.header_active = "True" THEN substitute(row0, cd) ELSE row0
        ha  == IF st.header_active = "None" /\ StartsWith(row, prefix) THEN "True"
               ELSE IF st.header_active = "True" THEN "False"
               ELSE st.header_active
    IN [header_active |-> ha, out |-> st.out \o row]

\* a variant of the loop body in which every marker line flips the state
MutToggleStep(st, row0, prefix, cd) ==
    LET row == IF st.header_active = "True" THEN substitute(row0, cd) ELSE row0
        ha  == IF ~StartsWith(row, prefix) THEN st.header_active
               ELSE IF st.header_active = "True" THEN "False" ELSE "True"
    IN [header_active |-> ha, out |-> st.out \o row]

\* one pass of `for row in in_hdl`
rewrite_step(st, row0, prefix, cd) ==
    LET row == IF st.header_active = "True" THEN substitute(row0, cd) ELSE row0
        ha  == IF st.header_active = "None" /\ StartsWith(row, prefix) THEN "True"
               ELSE IF st.header_active = "True" /\ StartsWith(row, prefix)
                    THEN "False"
               ELSE st.header_active
    IN [header_active |-> ha, out |-> st.out \o row]

RECURSIVE rewrite_loop(_, _, _, _)
rewrite_loop(st, rows, prefix, cd) ==
    IF rows = <<>> THEN st
    ELSE rewrite_loop(rewrite_step(st, Head(rows), prefix, cd),
                      Tail(rows), prefix, cd)

\* the bytes written to the final path after the first n rows of the backup
rewrite_prefix(bytes, ext, cd, n) ==
    LET rows == readlines(read_text(bytes))
    IN rewrite_loop([header_active |-> "None", out |-> <<>>],
                    SubSeq(rows, 1, n), PATCHABLE_EXT_PREFIXES[ext], cd).out

\* the bytes of the final path when the loop ran to its end
rewritten(bytes, ext, cd) ==
    rewrite_prefix(bytes, ext, cd, Len(readlines(read_text(bytes))))

(***************************************************************************)
(* State.                                                                  *)
(***************************************************************************)
VARIABLES
    \* --- SpecFile: one file under the scan and the rewrite ---
    f_pc,       \* "new", "scanned", "edited", "rescanned", "rewritten", "checked"
    f_ext,      \* extension of the file
    f_src,      \* bytes of the file as committed
    f_crc,      \* crc_of the file
    f_edit,     \* "none", "tags" (header tag values edited), "body"
    f_alt,      \* bytes of the edited file, or of the rewritten file
    f_crc_alt,  \* crc_of f_alt
    f_cd,       \* the commit data the rewrite used
    \* --- the developer's checkout and its environment ---
    root_name,      \* get_git_root_path().name
    ci_collation,   \* the ledger compares names case-insensitively
    now,            \* wall clock (seconds) when it was last read
    head,           \* number of the commit HEAD points to
    fs,             \* working tree: path -> [exists, bytes]
    repo_file,      \* <root>/.pre-commit-repo.json: [exists, data]
    lock_holder,    \* holder of <root>/.pre-commit-repo.lock, 0 when free
    \* --- GitPreCommitHook instances (one per hook process) ---
    pc,             \* position of each pre-commit process
    files,          \* self.files (the command line)
    idx,            \* position of the loop over self.files
    commit_data,    \* self.commit_data
    files_modified, \* self.files_modified
    \* --- git_post_commit_hook.run ---
    fin_pc,         \* position of the post-commit process
    fin_data,       \* the dict compile_commit_data returned
    fin_done,       \* ledger statements this run of the finalizer completed
    \* --- the ledger (MySQL) ---
    repositories,       \* rows of git.repositories
    repository_history, \* rows of git.repository_history
    \* --- history variables, read by the properties only ---
    runs,           \* pre-commit invocations started so far
    g_written,      \* per process: paths it rewrote in this invocation
    g_allocs,       \* per process: calls of get_new_repository_revision
    g_rerun,        \* per process: it repeats the previous successful run
    g_error,        \* per process: what raised in its invocation ("none" if
                    \* nothing did)
    prev,           \* the invocation that runs (valid = FALSE) or was the last
                    \* to succeed (valid = TRUE) with no finalizer step, edit
                    \* or other hook process since it started:
                    \* [valid, files, modified]
    life_runs,      \* invocations that wrote the present handoff file
    life_written,   \* paths they rewrote
    life_revs,      \* revisions they used
    life_allocs,    \* calls of get_new_repository_revision they made
    commit_allocs,  \* allocations since the last finalized commit
    \* --- SpecLedger: developers calling get_new_repository_revision ---
    l_pc,           \* per developer: "idle", "inserted", "done"
    l_result,       \* per developer: the revision the call returned
    l_own,          \* per developer: the revision its own statement wrote
    \* --- SpecRewrite: update_header_block step by step on one file ---
    w_pc,           \* "off", "start", "renamed", "writing", "closed", "done",
                    \* "failed" (an exception left the method), "killed"
    w_infile,       \* self.infile
    w_posix,        \* rename replaces an existing target (POSIX) or raises
    w_fs,           \* the two paths on disk: path -> [exists, bytes]
    w_n,            \* rows written to out_hdl so far
    w_flushed,      \* rows of them that reached the disk
    w_cd,           \* self.commit_data
    w_orig          \* history: bytes of the file when the method was called

fileVars == <<f_pc, f_ext, f_src, f_crc, f_edit, f_alt, f_crc_alt, f_cd>>

envVars == <<root_name, ci_collation, now, head, fs, repo_file, lock_holder>>
preVars == <<pc, files, idx, commit_data, files_modified>>
finVars == <<fin_pc, fin_data, fin_done>>
dbVars == <<repositories, repository_history>>
lifeVars == <<life_runs, life_written, life_revs, life_allocs>>
ghostVars == <<runs, g_written, g_allocs, g_rerun, g_error, prev, lifeVars,
              commit_allocs>>
hookVars == <<envVars, preVars, finVars, dbVars, ghostVars>>
rwVars == <<w_pc, w_infile, w_posix, w_fs, w_n, w_flushed, w_cd, w_orig>>
callVars == <<l_pc, l_result, l_own>>

vars == <<fileVars, hookVars, callVars, rwVars>>

NoCrc == <<>>
\* a dict path -> checksum with no key: every path maps to NoCrc (None)
EmptyMap == [k \in {[stem |-> "a", suffix |-> ".py"], [stem |-> "b", suffix |-> ".conf"],
                    [stem |-> "c", suffix |-> ".py"], [stem |-> "b", suffix |-> ".bak"],
                    [stem |-> "e", suffix |-> ".py"]} |-> NoCrc]
\* the keys of such a dict
Keys(m) == {k \in DOMAIN m : m[k] # NoCrc}
\* self.commit_data = {} (no key set yet)
NoData == [user |-> <<>>, files |-> EmptyMap, repo |-> <<>>, rev |-> 0,
           branch |-> <<>>, date |-> <<>>]

(***************************************************************************)
(* SpecFile: crc_of and the rewrite loop applied to files drawn from a     *)
(* pool of lines.                                                          *)
(***************************************************************************)
\* line contents (no terminator) the files are built from
MarkerText(ext) == IF ext = ".py" THEN <<"\"", "\"", "\"">> ELSE HASH_MARK
RevLine  == <<" ", " ">> \o TAG_REV \o <<" ", "1">>
LinePool(ext) == {MarkerText(ext), RevLine, <<"x">>, <<"y">>}

LF_EOL   == <<NL>>
CRLF_EOL == <<CR, NL>>

RECURSIVE SeqsUpTo(_, _)
SeqsUpTo(S, n) ==
    IF n = 0 THEN {<<>>}
    ELSE LET shorter == SeqsUpTo(S, n - 1)
         IN shorter \cup {Append(s, x) : s \in {t \in shorter : Len(t) = n - 1}, x \in S}

\* the bytes of a file with the given lines, all ended by eol
FileBytes(lines, eol) == Flatten([i \in DOMAIN lines |-> lines[i] \o eol])

\* physical lines of a file on disk, terminators kept as they are
RECURSIVE RawLines(_)
RawLines(b) ==
    IF b = <<>> THEN <<>>
    ELSE <<SubSeq(b, 1, FirstLineEnd(b))>>
           \o RawLines(SubSeq(b, FirstLineEnd(b) + 1, Len(b)))

\* a physical line without its terminator
LineText(l) ==
    IF Len(l) >= 2 /\ SubSeq(l, Len(l) - 1, Len(l)) = CRLF_EOL
    THEN SubSeq(l, 1, Len(l) - 2)
    ELSE IF Len(l) >= 1 /\ l[Len(l)] = NL THEN SubSeq(l, 1, Len(l) - 1)
    ELSE l

\* a physical line that is a header marker of the extension
IsMarkerLine(l, ext) ==
    IF ext = ".py" THEN LineText(l) = MarkerText(ext) /\ LineText(l) # l
    ELSE StartsWith(LineText(l), MarkerText(ext))

MarkerIdx(b, ext) == {i \in DOMAIN RawLines(b) : IsMarkerLine(RawLines(b)[i], ext)}

\* the marker line appears exactly twice (open / close)
WellFormed(b, ext) == Cardinality(MarkerIdx(b, ext)) = 2

\* lines strictly between the two markers / strictly outside them
HeaderIdx(b, ext) ==
    {i \in DOMAIN RawLines(b) :
        \E m1, m2 \in MarkerIdx(b, ext) : m1 < i /\ i < m2}
OutsideIdx(b, ext) ==
    {i \in DOMAIN RawLines(b) :
        \A m \in MarkerIdx(b, ext) : i < m} \cup
    {i \in DOMAIN RawLines(b) :
        \A m \in MarkerIdx(b, ext) : i > m}

\* the file with physical line i replaced by text (terminator kept)
WithLine(b, i, text) ==
    LET ls == RawLines(b)
        eol == SubSeq(ls[i], Len(LineText(ls[i])) + 1, Len(ls[i]))
    IN Flatten([k \in DOMAIN ls |-> IF k = i THEN text \o eol ELSE ls[k]])

FileInit ==
    /\ f_pc = "new"
    /\ f_ext \in {".py", ".conf"}
    /\ \E lines \in SeqsUpTo(LinePool(f_ext), MaxLines) \ {<<>>} :
         \E eol \in {LF_EOL, CRLF_EOL} :
            f_src = FileBytes(lines, eol)
    /\ f_crc = NoCrc
    /\ f_edit = "none"
    /\ f_alt = <<>>
    /\ f_crc_alt = NoCrc
    /\ f_cd = NoData

\* process_file: the checksum of the file as it is
FScan ==
    /\ f_pc = "new"
    /\ f_crc' = crc_of(f_src, f_ext)
    /\ f_pc' = "scanned"
    /\ UNCHANGED <<f_ext, f_src, f_edit, f_alt, f_crc_alt, f_cd, hookVars, callVars, rwVars>>

\* the developer changes the value of a tag line inside the header block
FEditTags ==
    /\ f_pc = "scanned"
    /\ WellFormed(f_src, f_ext)
    /\ \E i \in HeaderIdx(f_src, f_ext) :
         /\ LineText(RawLines(f_src)[i]) = RevLine
         /\ f_alt' = WithLine(f_src, i, <<" ", " ">> \o TAG_REV \o <<" ", "9">>)
    /\ f_edit' = "tags"
    /\ f_pc' = "edited"
    /\ UNCHANGED <<f_ext, f_src, f_crc, f_crc_alt, f_cd, hookVars, callVars, rwVars>>

\* the developer changes a line outside the header block
FEditBody ==
    /\ f_pc = "scanned"
    /\ WellFormed(f_src, f_ext)
    /\ \E i \in OutsideIdx(f_src, f_ext) :
         \E text \in {<<"x">>, <<"y">>, <<"z">>} :
            /\ text # LineText(RawLines(f_src)[i])
            /\ f_alt' = WithLine(f_src, i, text)
    /\ f_edit' = "body"
    /\ f_pc' = "edited"
    /\ UNCHANGED <<f_ext, f_src, f_crc, f_crc_alt, f_cd, hookVars, callVars, rwVars>>

\* process_file on the edited file
FRescan ==
    /\ f_pc = "edited"
    /\ f_crc_alt' = crc_of(f_alt, f_ext)
    /\ f_pc' = "rescanned"
    /\ UNCHANGED <<f_ext, f_src, f_crc, f_edit, f_alt, f_cd, hookVars, callVars, rwVars>>

\* update_header_block: the loop ran to its end
FRewrite ==
    /\ f_pc = "scanned"
    /\ \E rev \in 1..MaxRev :
         f_cd' = [user |-> <<"b", "o">>, files |-> EmptyMap, repo |-> <<"r">>,
                  rev |-> rev, branch |-> <<"m">>, date |-> <<"T", "2">>]
    /\ f_alt' = rewritten(f_src, f_ext, f_cd')
    /\ f_edit' = "rewrite"
    /\ f_pc' = "rewritten"
    /\ UNCHANGED <<f_ext, f_src, f_crc, f_crc_alt, hookVars, callVars, rwVars>>

\* process_file on the rewritten file (the next run of the hook)
FCheck ==
    /\ f_pc = "rewritten"
    /\ f_crc_alt' = crc_of(f_alt, f_ext)
    /\ f_pc' = "checked"
    /\ UNCHANGED <<f_ext, f_src, f_crc, f_edit, f_alt, f_cd, hookVars, callVars, rwVars>>

FileNext == FScan \/ FEditTags \/ FEditBody \/ FRescan \/ FRewrite \/ FCheck

(***************************************************************************)
(* SpecTagLine: the rewrite applied to files whose header block holds one  *)
(* line, built from what stands before the tag, the tag and what follows.  *)
(***************************************************************************)
NoTag == <<"k", ":">>
TagRows ==
    [lead : {<<>>, <<" ">>, <<" ", " ">>, <<"\t">>, <<"\t", " ">>,
             <<" ", "\t">>, <<"#", " ">>},
     tag  : {TAG_REPO, TAG_AUTHOR, TAG_DATE, TAG_REV, NoTag},
     tail : {<<>>, <<" ">>, <<"1">>, <<" ", "1">>,
             <<" ", "1", " ", "x">>}]

\* marker line, the line, marker line
TagFile(ext, lead, tag, tail) ==
    FileBytes(<<MarkerText(ext), lead \o tag \o tail, MarkerText(ext)>>, LF_EOL)

TagLineInit ==
    /\ f_pc = "new"
    /\ f_ext \in {".py", ".conf"}
    /\ \E r \in TagRows : f_src = TagFile(f_ext, r.lead, r.tag, r.tail)
    /\ f_crc = NoCrc
    /\ f_edit = "none"
    /\ f_alt = <<>>
    /\ f_crc_alt = NoCrc
    /\ f_cd = NoData

TagLineNext == FScan \/ FRewrite


(***************************************************************************)
(* The checkout the hooks run in.                                          *)
(***************************************************************************)
Procs == {1, 2}

\* the files git hands to the hook
FileA == MkPath("a", ".py")
FileB == MkPath("b", ".conf")
FileC == MkPath("c", ".py")
\* a file of an extension the hook does not handle, and an empty file
FileD == MkPath("b", ".bak")
FileE == MkPath("e", ".py")
WorkFiles == {FileA, FileB, FileC, FileD, FileE}

\* Path.with_suffix
with_suffix(p, suffix) == MkPath(p.stem, suffix)

AllPaths == WorkFiles \cup {with_suffix(p, ".bak") : p \in WorkFiles}

Absent == [exists |-> FALSE, bytes |-> <<>>]
OnDisk(bytes) == [exists |-> TRUE, bytes |-> bytes]

\* a.py and b.conf carry a header block, c.py is not valid UTF-8, b.bak is
\* some text and e.py is empty (like an __init__.py)
InitialBytes(p) ==
    IF p = FileA
    THEN FileBytes(<<<<"x">>, MarkerText(".py"), <<" ">> \o TAG_REV \o <<" ", "0">>,
                     MarkerText(".py")>>, LF_EOL)
    ELSE IF p = FileB
    THEN FileBytes(<<HASH_MARK, <<" ">> \o TAG_REV \o <<" ", "0">>, HASH_MARK,
                     <<"k">>>>, LF_EOL)
    ELSE IF p = FileC THEN <<"q", BADBYTE, NL>>
    ELSE IF p = FileD THEN <<"o", "l", "d", NL>>
    ELSE <<>>

\* the command lines of the hook
Batches == {<<FileA>>, <<FileA, FileB>>, <<FileA, FileC>>, <<FileD, FileE>>}

\* git_utilities.get_git_username / get_git_branch / get_git_commit_hash
get_git_username == <<"b", "o">>
get_git_branch == <<"m">>
get_git_commit_hash == <<"h">> \o str_int(head)

\* datetime.now().isoformat(' ', timespec='seconds') at second t
isoformat(t) == <<"T">> \o str_int(t)

NoHash == <<>>

(***************************************************************************)
(* The ledger: git.repositories, key (name, branch), and                   *)
(* git.repository_history, key (name, branch, created).                    *)
(***************************************************************************)
\* comparison of a VARCHAR under the collation of the server
name_eq(a, b) == IF ci_collation THEN lower(a) = lower(b) ELSE a = b

row_matches(r, name, branch) == name_eq(r.name, name) /\ name_eq(r.branch, branch)

\* INSERT INTO git.repositories (name, updated, branch) VALUES (...)
\* ON DUPLICATE KEY UPDATE updated=..., revision=revision+1
upsert_revision(rows, name, updated, branch) ==
    IF \E r \in rows : row_matches(r, name, branch)
    THEN {IF row_matches(r, name, branch)
          THEN [r EXCEPT !.updated = updated, !.revision = r.revision + 1]
          ELSE r : r \in rows}
    ELSE rows \cup {[name |-> name, branch |-> branch, updated |-> updated,
                     revision |-> 1, hash |-> NoHash]}

\* SELECT revision FROM git.repositories WHERE name=... AND branch=...
select_revision(rows, name, branch) ==
    (CHOOSE r \in rows : row_matches(r, name, branch)).revision

\* UPDATE git.repositories SET hash=... WHERE name=... AND branch=...
update_hash(rows, data) ==
    {IF row_matches(r, data.name, data.branch)
     THEN [r EXCEPT !.hash = data.hash] ELSE r : r \in rows}

\* INSERT IGNORE INTO git.repository_history (...) VALUES (...)
insert_history(rows, data) ==
    IF \E r \in rows : /\ row_matches(r, data.name, data.branch)
                       /\ r.created = data.created
    THEN rows
    ELSE rows \cup {[name |-> data.name, created |-> data.created,
                     revision |-> data.rev, hash |-> data.hash,
                     branch |-> data.branch]}

(***************************************************************************)
(* GitPreCommitHook.run                                                    *)
(***************************************************************************)
Inactive == {"idle", "done", "failed"}

\* a lock that every process can take at any time
MutLockAlwaysFree(holder) == TRUE

\* FileLock(repo_lock_file, timeout=1) can be acquired
lock_free(holder) == holder = 0

\* update_header_block allocates on every call
MutAlwaysAllocate(cd) == TRUE

\* update_header_block: `if self.commit_data['rev'] == 0`
needs_revision(cd) == cd.rev = 0

\* process_file rewrites whatever the checksum is
MutAlwaysDiffers(current_crc, cd, key) == TRUE

\* process_file: current_crc != self.commit_data['files'].get(key)
crc_differs(current_crc, cd, key) ==
    current_crc # cd.files[key]

\* run: the record of a first invocation, made at second t
fresh_commit_data(t) ==
    [user |-> get_git_username, files |-> EmptyMap, repo |-> lower(root_name),
     rev |-> 0, branch |-> get_git_branch, date |-> isoformat(t)]

NoPrev == [valid |-> FALSE, files |-> <<>>, modified |-> FALSE]

\* the process is gone: nothing of the instance is left
Exit(p) ==
    /\ files' = [files EXCEPT ![p] = <<>>]
    /\ idx' = [idx EXCEPT ![p] = 1]
    /\ commit_data' = [commit_data EXCEPT ![p] = NoData]
    /\ files_modified' = [files_modified EXCEPT ![p] = FALSE]

GhostReset(p) ==
    /\ g_written' = [g_written EXCEPT ![p] = {}]
    /\ g_allocs' = [g_allocs EXCEPT ![p] = 0]

\* a variant of run() that prints the exception and returns
MutSwallowException(what) == "done"

\* run: `except BaseException as why: print(...); raise`, and the Timeout of
\* FileLock raised outside the try: the process ends with a traceback
after_exception(what) == "failed"

\* hook processes are numbered as they come: a new one takes the lowest
\* number that is free
FreeSlot(p) ==
    /\ pc[p] \in Inactive
    /\ \A q \in Procs : q < p => pc[q] \notin Inactive

\* the commit tool starts a hook process with a list of staged files;
\* `with FileLock(repo_lock_file, timeout=1)`: the lock is acquired
PreStart(p, a) ==
    /\ FreeSlot(p)
    /\ runs < MaxRuns
    /\ lock_free(lock_holder)
    /\ runs' = runs + 1
    /\ lock_holder' = p
    /\ pc' = [pc EXCEPT ![p] = "locked"]
    /\ files' = [files EXCEPT ![p] = a]
    /\ idx' = [idx EXCEPT ![p] = 1]
    /\ commit_data' = [commit_data EXCEPT ![p] = NoData]
    /\ files_modified' = [files_modified EXCEPT ![p] = FALSE]
    /\ GhostReset(p)
    /\ g_error' = [g_error EXCEPT ![p] = "none"]
    /\ g_rerun' = [q \in Procs |->
                     /\ q = p
                     /\ prev.valid
                     /\ prev.files = a
                     /\ fin_pc = "idle"
                     /\ \A o \in Procs \ {p} : pc[o] \in Inactive]
    /\ prev' = IF g_rerun'[p]
                THEN prev
                ELSE [valid |-> FALSE, files |-> a, modified |-> FALSE]
    /\ UNCHANGED <<fileVars, rwVars, callVars, root_name, ci_collation, now, head, fs, repo_file,
                   finVars, dbVars, lifeVars, commit_allocs>>

\* the commit tool starts a hook process while the lock is held;
\* `with FileLock(repo_lock_file, timeout=1)`: Timeout is raised
PreLockTimeout(p) ==
    /\ FreeSlot(p)
    /\ runs < MaxRuns
    /\ ~lock_free(lock_holder)
    /\ runs' = runs + 1
    /\ pc' = [pc EXCEPT ![p] = after_exception("lock")]
    /\ g_error' = [g_error EXCEPT ![p] = "lock"]
    /\ Exit(p)
    /\ GhostReset(p)
    /\ g_rerun' = [q \in Procs |-> FALSE]
    /\ prev' = NoPrev
    /\ UNCHANGED <<fileVars, rwVars, callVars, envVars, finVars, dbVars,
                   lifeVars, commit_allocs>>

\* an exception leaves run(): it is printed and raised again, the lock is
\* released
Raise(p, what) ==
    /\ pc' = [pc EXCEPT ![p] = after_exception(what)]
    /\ g_error' = [g_error EXCEPT ![p] = what]
    /\ lock_holder' = 0
    /\ Exit(p)
    /\ GhostReset(p)
    /\ g_rerun' = [g_rerun EXCEPT ![p] = FALSE]
    /\ prev' = NoPrev

\* run: `if not repo_file.exists()`
PreCheckExists(p) ==
    /\ pc[p] = "locked"
    /\ IF ~repo_file.exists
       THEN /\ \E t \in now..MaxClock :
                 /\ now' = t
                 /\ commit_data' = [commit_data EXCEPT
                                       ![p] = fresh_commit_data(t)]
            /\ pc' = [pc EXCEPT ![p] = "loop"]
       ELSE /\ pc' = [pc EXCEPT ![p] = "load"]
            /\ UNCHANGED <<now, commit_data>>
    /\ UNCHANGED <<fileVars, rwVars, callVars, root_name, ci_collation, head, fs, repo_file,
                   lock_holder, files, idx, files_modified, finVars,
                   dbVars, ghostVars>>

\* a variant of run() that keeps the record but starts from an empty map
MutDropFiles(data) == [data EXCEPT !.files = EmptyMap]

\* json.load of what json.dump wrote: the record as it was written
json_load(data) == data

\* run: `with open(repo_file, 'r') as hdl: self.commit_data = json.load(hdl)`
PreLoad(p) ==
    /\ pc[p] = "load"
    /\ IF repo_file.exists
       THEN /\ commit_data' = [commit_data EXCEPT
                                  ![p] = json_load(repo_file.data)]
            /\ pc' = [pc EXCEPT ![p] = "loop"]
            /\ UNCHANGED <<lock_holder, files, idx, files_modified, g_written,
                           g_allocs, g_rerun, g_error, prev>>
       ELSE Raise(p, "load")
    /\ UNCHANGED <<fileVars, rwVars, callVars, root_name, ci_collation, now, head, fs, repo_file,
                   finVars, dbVars, runs, lifeVars, commit_allocs>>

\* the loop body of run for one file that is left as it is
SkipFile(p) ==
    /\ idx' = [idx EXCEPT ![p] = idx[p] + 1]
    /\ UNCHANGED <<envVars, pc, files, commit_data, files_modified, dbVars,
                   ghostVars>>

\* the loop body of run for one file when an exception is raised
FailFile(p, what) ==
    /\ Raise(p, what)
    /\ UNCHANGED <<root_name, ci_collation, now, head, fs, repo_file, dbVars,
                   runs, lifeVars, commit_allocs>>

\* update_header_block: self.infile.rename(orig_file) raises (FileExistsError
\* on Windows when the backup path is taken); the revision is allocated
\* before the rename
RenameRaises(p, infile) ==
    LET cd0 == commit_data[p]
        alloc == needs_revision(cd0)
    IN /\ fs[with_suffix(infile, ".bak")].exists
       /\ repositories' = IF alloc
                          THEN upsert_revision(repositories, cd0.repo, cd0.date,
                                               cd0.branch)
                          ELSE repositories
       /\ commit_allocs' = commit_allocs + (IF alloc THEN 1 ELSE 0)
       /\ Raise(p, "rewrite")
       /\ UNCHANGED <<root_name, ci_collation, now, head, fs, repo_file,
                      repository_history, runs, lifeVars>>

\* update_header_block(current_crc) on self.infile
UpdateHeaderBlock(p, infile, current_crc) ==
    LET cd0 == commit_data[p]
        alloc == needs_revision(cd0)
        rows == IF alloc
                THEN upsert_revision(repositories, cd0.repo, cd0.date, cd0.branch)
                ELSE repositories
        rev == IF alloc THEN select_revision(rows, cd0.repo, cd0.branch)
               ELSE cd0.rev
        cd1 == [cd0 EXCEPT !.rev = rev,
                           !.files = [cd0.files EXCEPT ![infile] = current_crc]]
        orig_file == with_suffix(infile, ".bak")
        out == rewritten(fs[infile].bytes, current_infile_ext(infile), cd1)
    IN /\ repositories' = rows
       /\ commit_data' = [commit_data EXCEPT ![p] = cd1]
       /\ files_modified' = [files_modified EXCEPT ![p] = TRUE]
       /\ fs' = [fs EXCEPT ![orig_file] = Absent, ![infile] = OnDisk(out)]
       /\ idx' = [idx EXCEPT ![p] = idx[p] + 1]
       /\ g_written' = [g_written EXCEPT ![p] = @ \cup {infile}]
       /\ g_allocs' = [g_allocs EXCEPT ![p] = @ + (IF alloc THEN 1 ELSE 0)]
       /\ commit_allocs' = commit_allocs + (IF alloc THEN 1 ELSE 0)
       /\ UNCHANGED <<root_name, ci_collation, now, head, repo_file, lock_holder,
                      pc, files, repository_history, runs, g_rerun,
                      g_error, prev, lifeVars>>

\* run: one pass of `for item in self.files`, process_file included
PreProcessFile(p) ==
    /\ pc[p] = "loop"
    /\ idx[p] <= Len(files[p])
    /\ LET infile == files[p][idx[p]]
       IN IF ~patchable_file(infile) THEN SkipFile(p)
          ELSE IF ~fs[infile].exists THEN FailFile(p, "scan")
          ELSE IF Len(fs[infile].bytes) = 0 THEN SkipFile(p)
          ELSE IF crc_of_raises(fs[infile].bytes) THEN FailFile(p, "scan")
          ELSE LET current_crc == crc_of(fs[infile].bytes,
                                         current_infile_ext(infile))
               IN IF crc_differs(current_crc, commit_data[p], infile)
                  THEN \/ UpdateHeaderBlock(p, infile, current_crc)
                       \/ RenameRaises(p, infile)
                  ELSE SkipFile(p)
    /\ UNCHANGED <<fileVars, rwVars, callVars, finVars>>

\* get_new_repository_revision: the connection to the ledger fails
PreLedgerError(p) ==
    /\ pc[p] = "loop"
    /\ idx[p] <= Len(files[p])
    /\ LET infile == files[p][idx[p]]
       IN /\ patchable_file(infile)
          /\ fs[infile].exists
          /\ Len(fs[infile].bytes) # 0
          /\ ~crc_of_raises(fs[infile].bytes)
          /\ crc_differs(crc_of(fs[infile].bytes, current_infile_ext(infile)),
                         commit_data[p], infile)
          /\ needs_revision(commit_data[p])
    /\ FailFile(p, "ledger")
    /\ UNCHANGED <<fileVars, rwVars, callVars, finVars>>

\* a variant of run() that writes the handoff file at the end of every run
MutAlwaysPersist(modified) == TRUE

\* run: `if self.files_modified`
should_persist(modified) == modified

\* run: the loop is over; the handoff file is written if a file was
\* modified, and the lock is released
PreFinish(p) ==
    /\ pc[p] = "loop"
    /\ idx[p] > Len(files[p])
    /\ repo_file' = IF should_persist(files_modified[p])
                    THEN [exists |-> TRUE, data |-> commit_data[p]]
                    ELSE repo_file
    /\ lock_holder' = 0
    /\ pc' = [pc EXCEPT ![p] = "done"]
    /\ Exit(p)
    /\ GhostReset(p)
    /\ IF should_persist(files_modified[p])
       THEN LET born == ~repo_file.exists
            IN /\ life_runs' = (IF born THEN 0 ELSE life_runs) + 1
               /\ life_written' = (IF born THEN {} ELSE life_written)
                                     \cup g_written[p]
               /\ life_revs' = (IF born THEN {} ELSE life_revs)
                                  \cup {commit_data[p].rev}
               /\ life_allocs' = (IF born THEN 0 ELSE life_allocs)
                                    + g_allocs[p]
       ELSE UNCHANGED lifeVars
    /\ prev' = IF prev.files = files[p]
                THEN [valid |-> TRUE, files |-> files[p],
                      modified |-> files_modified[p]]
                ELSE NoPrev
    /\ UNCHANGED <<fileVars, rwVars, callVars, root_name, ci_collation, now, head, fs,
                   finVars, dbVars, runs, g_rerun, g_error, commit_allocs>>

(***************************************************************************)
(* git_post_commit_hook.run                                                *)
(***************************************************************************)
\* anything the finalizer does ends a sequence of two runs in a row
FinGhost ==
    /\ g_rerun' = [q \in Procs |-> FALSE]
    /\ prev' = NoPrev

\* git has created a commit and starts the hook: `if repo_file.exists()`
FinStart ==
    /\ fin_pc \in {"idle", "failed"}
    /\ head < MaxCommits
    /\ head' = head + 1
    /\ fin_pc' = IF repo_file.exists THEN "compile" ELSE "idle"
    /\ fin_done' = {}
    /\ FinGhost
    /\ UNCHANGED <<fileVars, rwVars, callVars, root_name, ci_collation, now, fs, repo_file,
                   lock_holder, preVars, fin_data, dbVars, runs, g_written,
                   g_allocs, g_error, lifeVars, commit_allocs>>

\* compile_commit_data(repo_file)
FinCompile ==
    /\ fin_pc = "compile"
    /\ repo_file.exists
    /\ fin_data' = [rev |-> repo_file.data.rev,
                    hash |-> get_git_commit_hash,
                    branch |-> repo_file.data.branch,
                    name |-> root_name,
                    created |-> repo_file.data.date]
    /\ fin_pc' = "update"
    /\ FinGhost
    /\ UNCHANGED <<fileVars, rwVars, callVars, envVars, preVars, fin_done, dbVars, runs,
                   g_written, g_allocs, g_error, lifeVars, commit_allocs>>

\* update_repository_tables: the UPDATE statement
FinUpdateHash ==
    /\ fin_pc = "update"
    /\ repositories' = update_hash(repositories, fin_data)
    /\ fin_pc' = "insert"
    /\ fin_done' = fin_done \cup {"update"}
    /\ FinGhost
    /\ UNCHANGED <<fileVars, rwVars, callVars, envVars, preVars, fin_data, repository_history,
                   runs, g_written, g_allocs, g_error, lifeVars, commit_allocs>>

\* update_repository_tables: the INSERT IGNORE statement
FinInsertHistory ==
    /\ fin_pc = "insert"
    /\ repository_history' = insert_history(repository_history, fin_data)
    /\ fin_pc' = "unlink"
    /\ fin_done' = fin_done \cup {"insert"}
    /\ FinGhost
    /\ UNCHANGED <<fileVars, rwVars, callVars, envVars, preVars, fin_data, repositories,
                   runs, g_written, g_allocs, g_error, lifeVars, commit_allocs>>

\* repo_file.unlink()
FinUnlink ==
    /\ fin_pc = "unlink"
    /\ repo_file.exists
    /\ repo_file' = [exists |-> FALSE, data |-> NoData]
    /\ fin_pc' = "idle"
    /\ FinGhost
    /\ life_runs' = 0
    /\ life_written' = {}
    /\ life_revs' = {}
    /\ life_allocs' = 0
    /\ commit_allocs' = 0
    /\ UNCHANGED <<fileVars, rwVars, callVars, root_name, ci_collation, now, head, fs,
                   lock_holder, preVars, fin_data, fin_done, dbVars, runs,
                   g_written, g_allocs, g_error>>

\* a variant of run() that deletes the handoff file in a finally clause
MutUnlinkAnyway(at) == "unlink"

\* run: an exception of update_repository_tables leaves run() before
\* repo_file.unlink() is reached
after_ledger_error(at) == "failed"

\* update_repository_tables: db.connect or a statement raises
FinLedgerError ==
    /\ fin_pc \in {"update", "insert"}
    /\ fin_pc' = after_ledger_error(fin_pc)
    /\ FinGhost
    /\ UNCHANGED <<fileVars, rwVars, callVars, envVars, preVars, fin_data, fin_done,
                   dbVars, runs, g_written, g_allocs, g_error, lifeVars,
                   commit_allocs>>

(***************************************************************************)
(* The environment: the developer and the clock.                           *)
(***************************************************************************)
\* between two runs of the hook the developer edits the first line of a.py
Edit ==
    /\ \A p \in Procs : pc[p] \in Inactive
    /\ fs[FileA].exists
    /\ fs' = [fs EXCEPT ![FileA].bytes =
                 <<IF fs[FileA].bytes[1] = "x" THEN "z" ELSE "x">>
                   \o Tail(fs[FileA].bytes)]
    /\ g_rerun' = [q \in Procs |-> FALSE]
    /\ prev' = NoPrev
    /\ UNCHANGED <<fileVars, rwVars, callVars, root_name, ci_collation, now, head, repo_file,
                   lock_holder, preVars, finVars, dbVars, runs, g_written,
                   g_allocs, g_error, lifeVars, commit_allocs>>

(***************************************************************************)
(* get_new_repository_revision called by several developers, each from     *)
(* its own checkout of the same repository and branch. The connection is   *)
(* opened with autocommit=true (the documented secrets file), so the two   *)
(* statements of a call are two transactions.                              *)
(***************************************************************************)
Devs == {1, 2, 3}

\* cur.execute("INSERT INTO git.repositories ... ON DUPLICATE KEY UPDATE ...")
CallInsert(d) ==
    /\ l_pc[d] \in {"idle", "done"}
    /\ \A r \in repositories : r.revision < MaxRev
    /\ repositories' = upsert_revision(repositories, lower(root_name),
                                       isoformat(now), get_git_branch)
    /\ l_own' = [l_own EXCEPT ![d] =
                   select_revision(repositories', lower(root_name), get_git_branch)]
    /\ l_result' = [l_result EXCEPT ![d] = 0]
    /\ l_pc' = [l_pc EXCEPT ![d] = "inserted"]
    /\ UNCHANGED <<fileVars, rwVars, envVars, preVars, finVars, repository_history,
                   ghostVars>>

\* cur.execute("SELECT revision FROM git.repositories WHERE ...");
\* result = cur.fetchone()[0]
CallSelect(d) ==
    /\ l_pc[d] = "inserted"
    /\ l_result' = [l_result EXCEPT ![d] =
                      select_revision(repositories, lower(root_name),
                                      get_git_branch)]
    /\ l_pc' = [l_pc EXCEPT ![d] = "done"]
    /\ UNCHANGED <<fileVars, rwVars, hookVars, l_own>>

CallInit ==
    /\ l_pc = [d \in Devs |-> "idle"]
    /\ l_result = [d \in Devs |-> 0]
    /\ l_own = [d \in Devs |-> 0]

(***************************************************************************)
(* update_header_block step by step on one file: the rename, the opening   *)
(* of the two handles, the loop row by row, the end of the `with` block    *)
(* and the unlink. An exception or the end of the process can come at any  *)
(* step; out_hdl is buffered, so what is on disk while the loop runs is    *)
(* some prefix of what was written.                                        *)
(***************************************************************************)
w_backup == with_suffix(w_infile, ".bak")
w_ext == current_infile_ext(w_infile)
w_rows == readlines(read_text(w_fs[w_backup].bytes))

RwQuiet ==
    /\ w_pc = "off"
    /\ w_infile = FileA
    /\ w_posix = TRUE
    /\ w_fs = [p \in {FileA, with_suffix(FileA, ".bak")} |-> Absent]
    /\ w_n = 0
    /\ w_flushed = 0
    /\ w_cd = NoData
    /\ w_orig = <<>>

\* the method is called on a patchable file; at the backup path there is
\* nothing, or a file left by something else
RwInit ==
    /\ w_pc = "start"
    /\ w_infile \in {FileA, FileB}
    /\ w_posix \in BOOLEAN
    /\ \E lines \in SeqsUpTo(LinePool(current_infile_ext(w_infile)), MaxLines)
                     \ {<<>>} :
         \E eol \in {LF_EOL, CRLF_EOL} :
            w_orig = FileBytes(lines, eol)
    /\ \E stale \in {Absent, OnDisk(<<"o", "l", "d", NL>>)} :
         w_fs = [p \in {w_infile, with_suffix(w_infile, ".bak")} |->
                   IF p = w_infile THEN OnDisk(w_orig) ELSE stale]
    /\ w_n = 0
    /\ w_flushed = 0
    /\ w_cd = [user |-> <<"b", "o">>, files |-> EmptyMap, repo |-> <<"r">>,
               rev |-> 2, branch |-> <<"m">>, date |-> <<"T", "2">>]

\* self.infile.rename(orig_file): FileExistsError on Windows when the target
\* exists, else the target is replaced
WRename ==
    /\ w_pc = "start"
    /\ IF ~w_posix /\ w_fs[w_backup].exists
       THEN /\ w_pc' = "failed"
            /\ UNCHANGED w_fs
       ELSE /\ w_pc' = "renamed"
            /\ w_fs' = [w_fs EXCEPT ![w_backup] = w_fs[w_infile],
                                    ![w_infile] = Absent]
    /\ UNCHANGED <<w_infile, w_posix, w_n, w_flushed, w_cd, w_orig,
                   fileVars, hookVars, callVars>>

\* `with (open(orig_file, 'r', ...) as in_hdl, open(self.infile, 'wb') as
\* out_hdl)`: the final path is created empty
WOpen ==
    /\ w_pc = "renamed"
    /\ w_fs' = [w_fs EXCEPT ![w_infile] = OnDisk(<<>>)]
    /\ w_pc' = "writing"
    /\ UNCHANGED <<w_infile, w_posix, w_n, w_flushed, w_cd, w_orig,
                   fileVars, hookVars, callVars>>

\* one pass of `for row in in_hdl`: the row is written to out_hdl; the
\* buffer may or may not be flushed
WWriteRow ==
    /\ w_pc = "writing"
    /\ w_n < Len(w_rows)
    /\ w_n' = w_n + 1
    /\ \E k \in w_flushed..(w_n + 1) :
         /\ w_flushed' = k
         /\ w_fs' = [w_fs EXCEPT ![w_infile] =
                        OnDisk(rewrite_prefix(w_fs[w_backup].bytes, w_ext,
                                              w_cd, k))]
    /\ UNCHANGED <<w_pc, w_infile, w_posix, w_cd, w_orig,
                   fileVars, hookVars, callVars>>

\* the loop is over and the `with` block ends: both handles are closed
WClose ==
    /\ w_pc = "writing"
    /\ w_n = Len(w_rows)
    /\ w_flushed' = w_n
    /\ w_fs' = [w_fs EXCEPT ![w_infile] =
                   OnDisk(rewritten(w_fs[w_backup].bytes, w_ext, w_cd))]
    /\ w_pc' = "closed"
    /\ UNCHANGED <<w_infile, w_posix, w_n, w_cd, w_orig,
                   fileVars, hookVars, callVars>>

\* a variant that removes the backup as soon as the final path is open
MutUnlinkEarly(at) == at \in {"writing", "closed"}

\* orig_file.unlink() is the statement after the `with` block
unlink_ready(at) == at = "closed"

\* orig_file.unlink()
WUnlink ==
    /\ unlink_ready(w_pc)
    /\ w_fs' = [w_fs EXCEPT ![w_backup] = Absent]
    /\ w_pc' = "done"
    /\ UNCHANGED <<w_infile, w_posix, w_n, w_flushed, w_cd, w_orig,
                   fileVars, hookVars, callVars>>

\* an exception is raised by open, by the read of a row, by the write or
\* by unlink: the `with` block closes out_hdl if it was open (what was
\* written so far is flushed) and the exception leaves the method
WRaise ==
    /\ w_pc \in {"renamed", "writing", "closed"}
    /\ w_pc' = "failed"
    /\ IF w_pc = "writing"
       THEN /\ w_flushed' = w_n
            /\ w_fs' = [w_fs EXCEPT ![w_infile] =
                           OnDisk(rewrite_prefix(w_fs[w_backup].bytes, w_ext,
                                                 w_cd, w_n))]
       ELSE UNCHANGED <<w_flushed, w_fs>>
    /\ UNCHANGED <<w_infile, w_posix, w_n, w_cd, w_orig,
                   fileVars, hookVars, callVars>>

\* the process is ended from outside (or the machine stops): nothing more
\* is written
WKill ==
    /\ w_pc \in {"renamed", "writing", "closed"}
    /\ w_pc' = "killed"
    /\ UNCHANGED <<w_infile, w_posix, w_fs, w_n, w_flushed, w_cd, w_orig,
                   fileVars, hookVars, callVars>>

RwNext == WRename \/ WOpen \/ WWriteRow \/ WClose \/ WUnlink \/ WRaise \/ WKill

(***************************************************************************)
(* Specifications.                                                         *)
(***************************************************************************)
HookInitWith(root, ci) ==
    /\ root_name = root
    /\ ci_collation = ci
    /\ now = 1
    /\ head = 0
    /\ fs = [p \in AllPaths |->
               IF p \in WorkFiles THEN OnDisk(InitialBytes(p)) ELSE Absent]
    /\ repo_file = [exists |-> FALSE, data |-> NoData]
    /\ lock_holder = 0
    /\ pc = [p \in Procs |-> "idle"]
    /\ files = [p \in Procs |-> <<>>]
    /\ idx = [p \in Procs |-> 1]
    /\ commit_data = [p \in Procs |-> NoData]
    /\ files_modified = [p \in Procs |-> FALSE]
    /\ fin_pc = "idle"
    /\ fin_done = {}
    /\ fin_data = [rev |-> 0, hash |-> NoHash, branch |-> <<>>, name |-> <<>>,
                   created |-> <<>>]
    /\ repositories = {}
    /\ repository_history = {}
    /\ runs = 0
    /\ g_written = [p \in Procs |-> {}]
    /\ g_allocs = [p \in Procs |-> 0]
    /\ g_rerun = [p \in Procs |-> FALSE]
    /\ g_error = [p \in Procs |-> "none"]
    /\ prev = NoPrev
    /\ life_runs = 0
    /\ life_written = {}
    /\ life_revs = {}
    /\ life_allocs = 0
    /\ commit_allocs = 0

FileQuiet ==
    /\ f_pc = "off"
    /\ f_ext = ".py"
    /\ f_src = <<>>
    /\ f_crc = NoCrc
    /\ f_edit = "none"
    /\ f_alt = <<>>
    /\ f_crc_alt = NoCrc
    /\ f_cd = NoData

\* the hooks in one checkout; the root directory is named in lower case or
\* not, and the server compares names with or without case (with a lower
\* case name the two servers behave alike)
Init ==
    /\ FileQuiet
    /\ CallInit
    /\ RwQuiet
    /\ \E env \in {<<<<"r">>, TRUE>>, <<<<"R">>, TRUE>>, <<<<"R">>, FALSE>>} :
          HookInitWith(env[1], env[2])

Next ==
    \/ \E p \in Procs : \E a \in Batches : PreStart(p, a)
    \/ \E p \in Procs : PreLockTimeout(p)
    \/ \E p \in Procs : PreCheckExists(p)
    \/ \E p \in Procs : PreLoad(p)
    \/ \E p \in Procs : PreProcessFile(p)
    \/ \E p \in Procs : PreLedgerError(p)
    \/ \E p \in Procs : PreFinish(p)
    \/ FinStart
    \/ FinCompile
    \/ FinUpdateHash
    \/ FinInsertHistory
    \/ FinUnlink
    \/ FinLedgerError
    \/ Edit

Spec == Init /\ [][Next]_vars

\* crc_of and the rewrite applied to files drawn from the pool
SpecFileInit == FileInit /\ HookInitWith(<<"r">>, TRUE) /\ CallInit /\ RwQuiet

SpecFile == SpecFileInit /\ [][FileNext]_vars

\* developers allocating revisions on the same repository and branch
SpecLedgerInit == FileQuiet /\ CallInit /\ HookInitWith(<<"R">>, TRUE) /\ RwQuiet

LedgerNext ==
    \/ \E d \in Devs : CallInsert(d)
    \/ \E d \in Devs : CallSelect(d)

SpecLedger == SpecLedgerInit /\ [][LedgerNext]_vars

\* the rewrite of files with one header line
SpecTagLineInit ==
    TagLineInit /\ HookInitWith(<<"r">>, TRUE) /\ CallInit /\ RwQuiet

SpecTagLine == SpecTagLineInit /\ [][TagLineNext]_vars

\* update_header_block step by step, with failures
SpecRewriteInit ==
    RwInit /\ FileQuiet /\ CallInit /\ HookInitWith(<<"r">>, TRUE)

SpecRewrite == SpecRewriteInit /\ [][RwNext]_vars

(***************************************************************************)
(* Claims checked under Spec.                                              *)
(***************************************************************************)
\* C1: the invocations that wrote the handoff file between its creation and
\* its deletion all used one and the same (allocated) revision, and between
\* them called get_new_repository_revision at most once.
C1_RevisionStability ==
    /\ Cardinality(life_revs) <= 1
    /\ 0 \notin life_revs
    /\ life_allocs <= 1
    /\ repo_file.exists => life_revs = {repo_file.data.rev}

\* C1 witness: two invocations rewrote files during the life of one handoff
\* file, with one allocation between them.
C1_Witness ==
    /\ life_runs >= 2
    /\ life_allocs = 1
    /\ repo_file.exists
    /\ life_revs = {repo_file.data.rev}

\* C2 (as claimed): whatever the sequence of hook runs, successful or
\* failing, at most one revision is allocated per logical commit (between two
\* finalizations).
C2_OneRevisionPerCommit == commit_allocs <= 1

\* C4: at most one pre-commit process is inside the locked section, it holds
\* the lock, and the handoff file has an entry for every path rewritten by
\* the invocations that wrote it.
C4_ExclusiveNoLostUpdate ==
    /\ Cardinality({p \in Procs : pc[p] \notin Inactive}) <= 1
    /\ \A p \in Procs : pc[p] \notin Inactive => lock_holder = p
    /\ repo_file.exists => life_written \subseteq Keys(repo_file.data.files)

\* C4 witness: two invocations have completed on one handoff file, each
\* rewrote a file, and the map holds both entries.
C4_Witness ==
    /\ life_runs = 2
    /\ lock_holder = 0
    /\ repo_file.exists
    /\ life_written = {FileA, FileB}
    /\ Keys(repo_file.data.files) = {FileA, FileB}

\* C5 (as claimed): the finalizer is never between its existence check and
\* its unlink while a pre-commit process is between its existence check and
\* its persist.
C5_FinalizerExcluded ==
    ~(/\ fin_pc \in {"compile", "update", "insert", "unlink"}
      /\ \E p \in Procs : pc[p] \in {"load", "loop"})

\* C6: while an invocation repeats the previous successful invocation (same
\* file list; no edit, no finalizer step and no other hook process since
\* that invocation started), no step rewrites a file, allocates a revision
\* or changes the handoff file.
C6_Idempotence ==
    [][\A p \in Procs :
         (g_rerun[p] /\ g_rerun'[p]) =>
            /\ fs' = fs
            /\ repositories' = repositories
            /\ repo_file' = repo_file
            /\ g_written'[p] = {}
            /\ g_allocs'[p] = 0]_vars

\* C6 witness: the repeat of an invocation that had rewritten files has
\* gone through its whole file list.
C6_Witness ==
    \E p \in Procs :
        /\ g_rerun[p]
        /\ prev.modified
        /\ pc[p] = "loop"
        /\ idx[p] > Len(files[p])
        /\ repo_file.exists

\* C10 (as claimed): when the finalizer has run its two statements, the row
\* of git.repositories keyed by the lower-cased root name and the branch
\* holds the new hash, and a history row carries that name and branch with
\* the created timestamp, the revision and the hash.
C10_FinalizedRows ==
    fin_pc = "unlink" =>
        /\ \E r \in repositories :
              /\ r.name = lower(root_name)
              /\ r.branch = fin_data.branch
              /\ r.hash = fin_data.hash
        /\ \E h \in repository_history :
              /\ h.name = lower(root_name)
              /\ h.branch = fin_data.branch
              /\ h.created = fin_data.created
              /\ h.revision = fin_data.rev
              /\ h.hash = fin_data.hash

\* C11: the handoff file is removed only by the finalizer's unlink, reached
\* after both ledger statements of that run completed; no step of the
\* pre-commit hook removes it; and the step in which the ledger update fails
\* leaves the handoff file on disk with its content.
C11_DeletedOnlyAfterFinalization ==
    [][/\ (repo_file.exists /\ ~repo_file'.exists) =>
             /\ fin_pc = "unlink"
             /\ fin_done = {"update", "insert"}
             /\ pc' = pc
       /\ (fin_pc \in {"update", "insert"} /\ fin_pc' = "failed") =>
             /\ repo_file.exists
             /\ repo_file' = repo_file]_vars

\* C11 witness: the finalizer has failed on the ledger after a pre-commit
\* run wrote the handoff file, and the file is still there.
C11_Witness ==
    /\ fin_pc = "failed"
    /\ repo_file.exists
    /\ repo_file.data.rev > 0
    /\ head > 0

C14_UnrecognizedUntouched ==
    \A f \in {FileD, FileE} :
        /\ fs[f] = OnDisk(InitialBytes(f))
        /\ f \notin Keys(repo_file.data.files)
        /\ \A p \in Procs :
              /\ f \notin Keys(commit_data[p].files)
              /\ f \notin g_written[p]
              /\ files[p] = <<FileD, FileE>> =>
                    (g_allocs[p] = 0 /\ g_written[p] = {})

C16_HistoryAppendOnly ==
    [][/\ repository_history \subseteq repository_history'
       /\ IF fin_pc = "insert" /\ fin_pc' = "unlink"
          THEN Cardinality(repository_history') =
                  Cardinality(repository_history) + 1
          ELSE repository_history' = repository_history]_vars

\* C21 (as claimed): the step in which update_header_block rewrites a file
\* leaves every other path of the directory as it was, in existence and in
\* content.
C21_RewriteFrame ==
    [][\A p \in Procs : \A f \in WorkFiles :
          (f \in g_written'[p] /\ f \notin g_written[p]) =>
              \A q \in AllPaths \ {f} : fs'[q] = fs[q]]_vars

(***************************************************************************)
(* Claims checked under SpecLedger.                                        *)
(***************************************************************************)
\* C3 (as claimed): every call returns the revision its own increment
\* produced, and two calls that overlap return different revisions.
C3_DistinctRevisions ==
    /\ \A d \in Devs : l_pc[d] = "done" => l_result[d] = l_own[d]
    /\ \A d, e \in Devs :
          (d # e /\ l_pc[d] = "done" /\ l_pc[e] = "done") =>
              l_result[d] # l_result[e]

(***************************************************************************)
(* Claims checked under SpecFile.                                          *)
(***************************************************************************)
\* C7 (as claimed): two well-formed files of the same extension that differ
\* in a line outside the header block (any line, not only the first) have
\* different checksums.
C7_ChecksumSensitivity ==
    (f_pc = "rescanned" /\ f_edit = "body") => f_crc_alt # f_crc

\* C8: for a well-formed file the checksum is the same before and after a
\* change of header tag values only, and the same before and after
\* update_header_block rewrote the file.
C8_HeaderIsolation ==
    /\ (f_pc = "rescanned" /\ f_edit = "tags") => f_crc_alt = f_crc
    /\ (f_pc = "checked" /\ WellFormed(f_src, f_ext)) => f_crc_alt = f_crc

\* C8 witness: a well-formed file whose header the rewrite did change has
\* been scanned again.
C8_Witness ==
    /\ f_pc = "checked"
    /\ WellFormed(f_src, f_ext)
    /\ f_alt # f_src
    /\ HeaderIdx(f_src, f_ext) # {}
    /\ universal_newlines(f_src) # f_alt

\* C9 (as claimed): after a rewrite every line outside the header block is
\* byte for byte the original line, terminator included.
C9_NonHeaderPreserved ==
    (f_pc = "rewritten" /\ WellFormed(f_src, f_ext)) =>
        /\ Len(RawLines(f_alt)) = Len(RawLines(f_src))
        /\ \A i \in OutsideIdx(f_src, f_ext) :
              RawLines(f_alt)[i] = RawLines(f_src)[i]

\* the rows update_header_block reads from the file, and the state of its
\* loop after the first n of them
RowsOf(b) == readlines(read_text(b))
StateAfter(b, ext, cd, n) ==
    rewrite_loop([header_active |-> "None", out |-> <<>>],
                 SubSeq(RowsOf(b), 1, n), PATCHABLE_EXT_PREFIXES[ext],
                 cd).header_active
\* number of rows among the first n that start with the marker
MarkersIn(b, ext, n) ==
    Cardinality({j \in 1..n :
                    StartsWith(RowsOf(b)[j], PATCHABLE_EXT_PREFIXES[ext])})

\* C17 (as claimed): the state of the rewrite loop is "inside" exactly after
\* an odd number of marker lines, and the output is the input with the tag
\* substitution applied to exactly the rows read after an odd number of
\* marker lines.
C17_TwoStateToggle ==
    f_pc = "rewritten" =>
        /\ \A n \in 0..Len(RowsOf(f_src)) :
              (StateAfter(f_src, f_ext, f_cd, n) = "True")
                 <=> (MarkersIn(f_src, f_ext, n) % 2 = 1)
        /\ f_alt = Flatten([i \in DOMAIN RowsOf(f_src) |->
                       IF MarkersIn(f_src, f_ext, i - 1) % 2 = 1
                       THEN substitute(RowsOf(f_src)[i], f_cd)
                       ELSE RowsOf(f_src)[i]])

\* C17 (amended): the state of the rewrite loop has three values: not yet
\* opened before the first marker line, inside after the first, closed after
\* the second and for the rest of the file; the output is the input with the
\* tag substitution applied to exactly the rows read after the first marker
\* line up to and including the second.
C17_OpenOnceCloseOnce ==
    f_pc = "rewritten" =>
        /\ \A n \in 0..Len(RowsOf(f_src)) :
              StateAfter(f_src, f_ext, f_cd, n) =
                 (IF MarkersIn(f_src, f_ext, n) = 0 THEN "None"
                  ELSE IF MarkersIn(f_src, f_ext, n) = 1 THEN "True"
                  ELSE "False")
        /\ f_alt = Flatten([i \in DOMAIN RowsOf(f_src) |->
                       IF MarkersIn(f_src, f_ext, i - 1) = 1
                       THEN substitute(RowsOf(f_src)[i], f_cd)
                       ELSE RowsOf(f_src)[i]])

\* C17 witness: a file with three marker lines and a tag line after the
\* third has been rewritten with a new revision: the tag line is as it was.
C17_Witness ==
    /\ f_pc = "rewritten"
    /\ f_ext = ".py"
    /\ f_src = FileBytes(<<MarkerText(".py"), MarkerText(".py"),
                           MarkerText(".py"), RevLine>>, LF_EOL)
    /\ f_cd.rev = 2
    /\ f_alt = f_src

\* the index of the only marker row of a file that has exactly one
OnlyMarker(b, ext) ==
    CHOOSE m \in DOMAIN RowsOf(b) :
        StartsWith(RowsOf(b)[m], PATCHABLE_EXT_PREFIXES[ext])

\* C18: for a file with exactly one marker line, the checksum is the
\* checksum of the file cut off after the marker line (no line after the
\* marker enters the hash), and the rewrite writes the lines up to the
\* marker as they are and every line after it with the tag substitution
\* applied.
C18_StuckOpen ==
    (f_pc # "new" /\ MarkersIn(f_src, f_ext, Len(RowsOf(f_src))) = 1) =>
        LET rows == RowsOf(f_src)
            m == OnlyMarker(f_src, f_ext)
        IN /\ f_crc = crc_of(Flatten(SubSeq(rows, 1, m)), f_ext)
           /\ f_pc = "rewritten" =>
                 f_alt = Flatten([i \in DOMAIN rows |->
                            IF i > m THEN substitute(rows[i], f_cd)
                            ELSE rows[i]])

\* C18 witness: a file whose only marker is its first line, followed by a
\* tag line, a body line and another tag line, has been rewritten: both tag
\* lines carry the new revision.
C18_Witness ==
    /\ f_pc = "rewritten"
    /\ f_ext = ".conf"
    /\ f_src = FileBytes(<<HASH_MARK, RevLine, <<"x">>, RevLine>>, LF_EOL)
    /\ f_cd.rev = 2
    /\ f_alt = FileBytes(<<HASH_MARK, <<" ", " ">> \o TAG_REV \o <<" ", "2">>,
                           <<"x">>, <<" ", " ">> \o TAG_REV \o <<" ", "2">>>>,
                         LF_EOL)

(***************************************************************************)
(* Claims checked under SpecRewrite.                                       *)
(***************************************************************************)
\* the bytes the file had when the method was called are on disk, whole, at
\* the given path
HoldsOriginal(p) == w_fs[p].exists /\ w_fs[p].bytes = w_orig

\* C19: from the call of update_header_block up to the unlink of the backup
\* the pre-rewrite bytes of the file are on disk at the original path or at
\* the backup path; once the final path has been opened for writing they
\* are at the backup path; the backup is removed only by the unlink that
\* follows a loop that wrote every row, and when the method was left by an
\* exception or the process ended after the rename, the backup is still
\* there with the pre-rewrite bytes.
C19_CrashSafety ==
    [][/\ w_pc' \notin {"off", "done"} =>
             (HoldsOriginal(w_infile) \/ HoldsOriginal(w_backup))'
       /\ w_pc' \in {"renamed", "writing", "closed"} => HoldsOriginal(w_backup)'
       /\ (w_pc \in {"renamed", "writing", "closed"}
             /\ w_pc' \in {"failed", "killed"}) => HoldsOriginal(w_backup)'
       /\ (HoldsOriginal(w_backup) /\ ~HoldsOriginal(w_backup)') =>
             /\ w_pc = "closed" /\ w_pc' = "done"
             /\ w_n = Len(w_rows)
             /\ w_fs[w_infile] = OnDisk(rewritten(w_orig, w_ext, w_cd))]_vars

\* C19 witness: the write stopped after the first of several rows, with
\* nothing or one row on disk at the final path and the backup in place.
C19_Witness ==
    /\ w_pc \in {"failed", "killed"}
    /\ w_n = 1
    /\ Len(readlines(read_text(w_orig))) >= 3
    /\ w_fs[w_infile].exists
    /\ w_fs[w_infile].bytes # w_orig
    /\ HoldsOriginal(w_backup)

(***************************************************************************)
(* Claims checked under SpecTagLine.                                       *)
(***************************************************************************)
\* the value the rewrite puts after a tag
TagValue(tag, cd) ==
    IF tag = TAG_REPO THEN cd.repo
    ELSE IF tag = TAG_AUTHOR THEN cd.user
    ELSE IF tag = TAG_DATE THEN cd.date
    ELSE str_int(cd.rev)

IsTag(tag) == tag \in Range(RE_KEYS)
Whitespace(lead) == lead # <<>> /\ Range(lead) \subseteq {" ", "\t"}

\* C20 (as claimed): a header line made of white space, a tag and something
\* after it is written as the same white space, the tag, a space and the
\* value of the handoff record; a header line with no tag is written as it
\* is.
C20_TagValueReplaced ==
    f_pc = "rewritten" =>
        \A r \in TagRows :
            f_src = TagFile(f_ext, r.lead, r.tag, r.tail) =>
                /\ (Whitespace(r.lead) /\ IsTag(r.tag) /\ r.tail # <<>>) =>
                      f_alt = TagFile(f_ext, r.lead, r.tag,
                                      <<" ">> \o TagValue(r.tag, f_cd))
                /\ ~IsTag(r.tag) =>
                      f_alt = TagFile(f_ext, r.lead, r.tag, r.tail)

\* C20 (amended): a header line in which the tag stands right after a
\* space character and is followed by at least one character is written
\* with everything up to and including the tag as it was, followed by a
\* space and the value of the handoff record; a line whose tag stands
\* after a tab or at the start of the line, or has nothing after it, and a
\* line with no tag, are written as they are.
C20_TagAfterSpaceReplaced ==
    f_pc = "rewritten" =>
        \A r \in TagRows :
            f_src = TagFile(f_ext, r.lead, r.tag, r.tail) =>
                IF /\ IsTag(r.tag)
                   /\ r.tail # <<>>
                   /\ r.lead # <<>>
                   /\ r.lead[Len(r.lead)] = " "
                THEN f_alt = TagFile(f_ext, r.lead, r.tag,
                                     <<" ">> \o TagValue(r.tag, f_cd))
                ELSE f_alt = f_src

\* C20 witness: the header line "  $Author: 1" has been rewritten with the
\* user of the handoff record.
C20_Witness ==
    /\ f_pc = "rewritten"
    /\ f_ext = ".py"
    /\ f_src = TagFile(".py", <<" ", " ">>, TAG_AUTHOR, <<" ", "1">>)
    /\ f_alt = TagFile(".py", <<" ", " ">>, TAG_AUTHOR, <<" ", "b", "o">>)

=============================================================================
